---- MODULE Spec2Model ----
(***************************************************************************)
(* Graph construction of the 1D DenseNet builders.                         *)
(*                                                                         *)
(* The state is the layer graph built so far (a sequence of nodes, a       *)
(* node's identity being its index), the position of the running builder   *)
(* call and the framework state the builders depend on: the backend's      *)
(* image data format, and whether the installed framework version rejects  *)
(* a convolution with zero filters or a dense layer with zero units.       *)
(***************************************************************************)
EXTENDS Integers, Sequences, FiniteSets, TLC

VARIABLES
    image_data_format,  \* backend.image_data_format(): global framework state
    strict_filters,     \* the installed framework rejects Conv1D(filters=0)
    strict_units,       \* the installed framework rejects Dense(units=0)
    cfg,                \* arguments of the builder call under way
    call,               \* number of the builder call under way (1, 2, ...)
    pc,                 \* position of the builder call
    graph,              \* every layer node created so far, in creation order
    x,                  \* the current tensor (a node index; 0 before any)
    layers_to_concat,   \* dense_block.f's accumulation list
    it,                 \* iterations of dense_block.f's loop completed
    blk,                \* index in block_sizes of the assembler's loop
    base,               \* number of nodes that existed when the call began
    err,                \* the exception that ended the call ("" if none)
    models              \* what each finished call returned or raised

vars == <<image_data_format, strict_filters, strict_units, cfg, call, pc, graph, x,
          layers_to_concat, it, blk, base, err, models>>

-----------------------------------------------------------------------------
(* Bounds of the explored inputs.                                          *)

MaxLen == 2
MaxChannels == 3
MaxK == 2
MaxLayers == 2
MaxRatio == 3

\* default ratio of squeeze_excite_block
SEDefaultRatio == 8

-----------------------------------------------------------------------------
(* The framework's layers, as far as graph construction shows them: every  *)
(* layer call appends one node and returns it; an invalid argument raises. *)
(* A partial build is r = [g, x, err, call]: the graph, the current        *)
(* tensor, the exception raised so far and the call that owns the nodes.   *)

Ceil(a, b) == (a + b - 1) \div b

Node(op, ins, L, C, n, w, s, act, c) ==
    [op |-> op, ins |-> ins, L |-> L, C |-> C, n |-> n, w |-> w, s |-> s,
     act |-> act, call |-> c]

Raise(r, e) == IF r.err # "" THEN r ELSE [r EXCEPT !.err = e]

Layer(r, op, ins, L, C, n, w, s, act) ==
    IF r.err # "" THEN r
    ELSE [r EXCEPT !.g = Append(@, Node(op, ins, L, C, n, w, s, act, r.call)),
                   !.x = Len(r.g) + 1]

\* rank of a tensor, the batch axis included; L = 0 marks a pooled vector
Rank(g, t) == IF g[t].L = 0 THEN 2 ELSE 3

\* (mutant) one placeholder per shape is kept and handed out again
InputShared(r, shape) ==
    IF r.err # "" THEN r
    ELSE IF \E i \in 1..Len(r.g) :
               r.g[i].op = "Input" /\ <<r.g[i].L, r.g[i].C>> = shape
         THEN [r EXCEPT !.x = CHOOSE i \in 1..Len(r.g) :
                                 r.g[i].op = "Input" /\ <<r.g[i].L, r.g[i].C>> = shape]
         ELSE Layer(r, "Input", <<>>, shape[1], shape[2], 0, 0, 0, "")

Input(r, shape) == Layer(r, "Input", <<>>, shape[1], shape[2], 0, 0, 0, "")

BatchNormalization(r) ==
    IF r.err # "" THEN r
    ELSE Layer(r, "BatchNormalization", <<r.x>>, r.g[r.x].L, r.g[r.x].C, 0, 0, 0, "")

Activation(r, act) ==
    IF r.err # "" THEN r
    ELSE Layer(r, "Activation", <<r.x>>, r.g[r.x].L, r.g[r.x].C, 0, 0, 0, act)

\* padding="same": the output length is ceil(L / strides)
Conv1D(r, filters, kernel_size, strides, act) ==
    IF r.err # "" THEN r
    ELSE IF \/ filters < 0 \/ kernel_size < 1 \/ strides < 1
            \/ (filters = 0 /\ strict_filters)
         THEN Raise(r, "ValueError")
         ELSE Layer(r, "Conv1D", <<r.x>>, Ceil(r.g[r.x].L, strides), filters,
                    filters, kernel_size, strides, act)

AveragePooling1D(r, pool_size, strides) ==
    IF r.err # "" THEN r
    ELSE IF pool_size < 1 \/ strides < 1
         THEN Raise(r, "ValueError")
         ELSE Layer(r, "AveragePooling1D", <<r.x>>, Ceil(r.g[r.x].L, strides),
                    r.g[r.x].C, 0, pool_size, strides, "")

RECURSIVE SumC(_, _)
SumC(g, ts) == IF ts = <<>> THEN 0 ELSE g[Head(ts)].C + SumC(g, Tail(ts))

\* Concatenate(axis=-1): the members agree on every other axis
Concatenate(r, ts) ==
    IF r.err # "" THEN r
    ELSE IF \E i \in 1..Len(ts) : r.g[ts[i]].L # r.g[ts[1]].L
         THEN Raise(r, "ValueError")
         ELSE Layer(r, "Concatenate", ts, r.g[ts[1]].L, SumC(r.g, ts), 0, 0, 0, "")

\* pools the sequence axis of a (L, C) tensor away
GlobalAvgPool1D(r) ==
    IF r.err # "" THEN r
    ELSE Layer(r, "GlobalAveragePooling1D", <<r.x>>, 0, r.g[r.x].C, 0, 0, 0, "")

\* the target shape must hold as many elements as the tensor
Reshape(r, shape) ==
    IF r.err # "" THEN r
    ELSE IF shape[1] * shape[2] # r.g[r.x].C * (IF r.g[r.x].L = 0 THEN 1 ELSE r.g[r.x].L)
         THEN Raise(r, "ValueError")
         ELSE Layer(r, "Reshape", <<r.x>>, shape[1], shape[2], 0, 0, 0, "")

Dense(r, units, act) ==
    IF r.err # "" THEN r
    ELSE IF units < 0 \/ (units = 0 /\ strict_units)
         THEN Raise(r, "ValueError")
         ELSE Layer(r, "Dense", <<r.x>>, r.g[r.x].L, units, units, 0, 0, act)

\* Permute(dims) takes a tensor of rank Len(dims) + 1
Permute(r, dims) ==
    IF r.err # "" THEN r
    ELSE IF Rank(r.g, r.x) # Len(dims) + 1
         THEN Raise(r, "ValueError")
         ELSE Layer(r, "Permute", <<r.x>>, r.g[r.x].L, r.g[r.x].C, 0, 0, 0, "")

Broadcasts(a, b) == a = b \/ a = 1 \/ b = 1
Max(a, b) == IF a >= b THEN a ELSE b

\* layers.multiply: elementwise, broadcasting axes of size 1
Multiply(r, a, b) ==
    IF r.err # "" THEN r
    ELSE IF \/ Rank(r.g, a) # Rank(r.g, b)
            \/ ~Broadcasts(r.g[a].L, r.g[b].L)
            \/ ~Broadcasts(r.g[a].C, r.g[b].C)
         THEN Raise(r, "ValueError")
         ELSE Layer(r, "Multiply", <<a, b>>, Max(r.g[a].L, r.g[b].L),
                    Max(r.g[a].C, r.g[b].C), 0, 0, 0, "")

-----------------------------------------------------------------------------
(* blocks/one_d.py                                                         *)

\* init.shape[channel_axis]: axis 1 under channels_first, the last otherwise
SEFilters(g, init) ==
    IF image_data_format = "channels_first" THEN g[init].L ELSE g[init].C

\* (mutant) the gate itself is returned
SEScaleGateOnly(r, init, se) == r

\* x = layers.multiply([init, se])
SEScale(r, init, se) == Multiply(r, init, se)

squeeze_excite_block(r, ratio) ==
    IF r.err # "" THEN r
    ELSE LET init == r.x
             filters == SEFilters(r.g, init)
             r1 == GlobalAvgPool1D(r)
             r2 == Reshape(r1, <<1, filters>>)
             r3 == IF ratio = 0
                   THEN Raise(r2, "ZeroDivisionError")
                   ELSE Dense(r2, filters \div ratio, "relu")
             r4 == Dense(r3, filters, "sigmoid")
             r5 == IF image_data_format = "channels_first"
                   THEN Permute(r4, <<3, 1, 2>>)
                   ELSE r4
         IN SEScale(r5, init, r5.x)

\* (mutant) a multiplier of 1 is taken for "no bottleneck"
H_l_bottleneck_above_one(r, k, bottleneck_size, kernel_width) ==
    LET use_bottleneck == bottleneck_size > 1
        num_bottleneck_output_filters == k * bottleneck_size
        b == IF use_bottleneck
             THEN Conv1D(Activation(BatchNormalization(r), "relu"),
                         num_bottleneck_output_filters, 1, 1, "")
             ELSE r
    IN Conv1D(Activation(BatchNormalization(b), "relu"), k, kernel_width, 1, "")

H_l(r, k, bottleneck_size, kernel_width) ==
    LET use_bottleneck == bottleneck_size > 0
        num_bottleneck_output_filters == k * bottleneck_size
        b == IF use_bottleneck
             THEN Conv1D(Activation(BatchNormalization(r), "relu"),
                         num_bottleneck_output_filters, 1, 1, "")
             ELSE r
    IN Conv1D(Activation(BatchNormalization(b), "relu"), k, kernel_width, 1, "")

\* layers_to_concat = [x]
NewList(t) == <<t>>

\* layers_to_concat.append(x)
DenseJoin(ltc, h) == Append(ltc, h)

\* (mutant) only the newest member is concatenated
ConcatInputsLastOnly(ltc) == <<ltc[Len(ltc)]>>

\* the members handed to Concatenate: a copy of the whole list
ConcatInputs(ltc) == ltc

DenseGate(r, se) == IF se THEN squeeze_excite_block(r, SEDefaultRatio) ELSE r

\* (mutant) the unit runs on the newest list member, not on the current tensor
dense_block_body_chained(r, ltc, k, kernel_width, bottleneck_size, se) ==
    LET h == H_l([r EXCEPT !.x = ltc[Len(ltc)]], k, bottleneck_size, kernel_width)
    IN IF h.err # "" THEN [r |-> h, ltc |-> ltc]
       ELSE [r   |-> DenseGate(Concatenate(h, ConcatInputs(DenseJoin(ltc, h.x))), se),
             ltc |-> DenseJoin(ltc, h.x)]

\* one pass of dense_block.f's loop body: the unit runs on the current tensor,
\* its output joins the list, the whole list is concatenated, then gated.
\* Yields the build and the list as the pass leaves them.
dense_block_body(r, ltc, k, kernel_width, bottleneck_size, se) ==
    LET h == H_l(r, k, bottleneck_size, kernel_width)
    IN IF h.err # "" THEN [r |-> h, ltc |-> ltc]
       ELSE [r   |-> DenseGate(Concatenate(h, ConcatInputs(DenseJoin(ltc, h.x))), se),
             ltc |-> DenseJoin(ltc, h.x)]

\* theta is the fraction num/den; the assertion of transition_block
ThetaInRange(theta) == theta.num > 0 /\ theta.num <= theta.den

\* (mutant) the product is rounded up
NumTransitionOutputFiltersRoundedUp(C, theta) == Ceil(C * theta.num, theta.den)

\* int(int(x.shape[2]) * float(theta)), for a theta that passed the assertion
NumTransitionOutputFilters(C, theta) == (C * theta.num) \div theta.den

transition_block_f(r, pool_size, stride, theta, se) ==
    LET num_transition_output_filters ==
            NumTransitionOutputFilters(r.g[r.x].C, theta)
        c == Conv1D(Activation(BatchNormalization(r), "relu"),
                    num_transition_output_filters, 1, 1, "")
        p == AveragePooling1D(c, pool_size, stride)
    IN IF se THEN squeeze_excite_block(p, SEDefaultRatio) ELSE p

transition_block(r, pool_size, stride, theta, se) ==
    IF r.err # "" THEN r
    ELSE IF ~ThetaInRange(theta)
         THEN Raise(r, "AssertionError")
         ELSE transition_block_f(r, pool_size, stride, theta, se)

-----------------------------------------------------------------------------
(* models/one_d.py, the network assembler the classifier builders call:    *)
(* stem, then a dense block and a transition block per entry of            *)
(* block_sizes, then global pooling when asked for.                        *)

PresetBlockSizes(builder) ==
    CASE builder = "DenseNet121" -> <<6, 12, 24, 16>>
      [] builder = "DenseNet169" -> <<6, 12, 32, 32>>
      [] builder = "DenseNet201" -> <<6, 12, 48, 32>>
      [] builder = "DenseNet264" -> <<6, 12, 64, 48>>

Presets == {"DenseNet121", "DenseNet169", "DenseNet201", "DenseNet264"}

\* the block sizes the assembler iterates over
AssemblerBlockSizes(c) ==
    IF c.builder \in Presets THEN PresetBlockSizes(c.builder) ELSE c.block_sizes.list

\* only DenseNetCustom passes se on; the gate is off otherwise
AssemblerSE(c) == c.builder = "DenseNetCustom" /\ c.se

\* one convolution followed by the stem's pooling stage
AssemblerStem(r, c) ==
    LET v == Conv1D(r, c.initial_filters, c.initial_conv_width, c.initial_stride, "")
    IN IF v.err # "" THEN v
       ELSE IF c.initial_pool_width < 1 \/ c.initial_pool_stride < 1
            THEN Raise(v, "ValueError")
            ELSE Layer(v, "Pooling1D", <<v.x>>,
                       Ceil(v.g[v.x].L, c.initial_pool_stride), v.g[v.x].C,
                       0, c.initial_pool_width, c.initial_pool_stride, "")

\* a transition block follows every dense block, the last one included
AssemblerTransitionAfter(c, b) == b <= Len(AssemblerBlockSizes(c))

\* where the assembler goes after the stem: its loop, unless there is no block
AssemblerFirst(c) == IF AssemblerBlockSizes(c) = <<>> THEN "final" ELSE "block"

AssemblerFinalStage(r, use_global_pooling) ==
    IF use_global_pooling THEN GlobalAvgPool1D(r) ELSE r

-----------------------------------------------------------------------------
(* classifiers/one_d.py                                                    *)

Classifiers == Presets \cup {"DenseNetCustom", "DenseFCN"}

\* (mutant) `block_sizes is None`
BlockSizesNoneOnly(bs) == bs.none

\* `not block_sizes`: None and the empty list are both falsy
BlockSizesMissing(bs) == bs.none \/ bs.list = <<>>

UseGlobalPooling(builder) == builder # "DenseFCN"

\* (mutant) the head is appended whatever include_top says
ClassifierHeadAlways(r, include_top, num_outputs) == Dense(r, num_outputs, "softmax")

\* the classification head of the presets and of DenseNetCustom
ClassifierHead(r, include_top, num_outputs) ==
    IF include_top THEN Dense(r, num_outputs, "softmax") ELSE r

\* DenseFCN's last statement names Conv2D, which the module never imports,
\* and a tensor x that is never assigned
DenseFCNProjection(r, num_outputs) == Raise(r, "NameError")

-----------------------------------------------------------------------------
(* Arguments of the calls explored.                                        *)

NoBlockSizes == [none |-> TRUE, list |-> <<>>]
Listed(l) == [none |-> FALSE, list |-> l]
Frac(n, d) == [num |-> n, den |-> d]

\* the keyword defaults the builders share
Defaults ==
    [builder |-> "", input_shape |-> <<224, 20>>, num_outputs |-> 1000,
     k |-> 32, block_sizes |-> NoBlockSizes, conv_kernel_width |-> 3,
     bottleneck_size |-> 4, transition_pool_size |-> 2,
     transition_pool_stride |-> 2, theta |-> Frac(1, 2),
     initial_conv_width |-> 7, initial_stride |-> 2, initial_filters |-> 64,
     initial_pool_width |-> 3, initial_pool_stride |-> 2,
     include_top |-> FALSE, se |-> FALSE, num_layers |-> 0,
     ratio |-> SEDefaultRatio]

Shapes == (1..MaxLen) \X (1..MaxChannels)

\* compression factors in and out of (0, 1], all exact in binary floating point
Thetas == {Frac(-1, 2), Frac(0, 1), Frac(1, 4), Frac(1, 2), Frac(3, 4),
           Frac(1, 1), Frac(5, 4), Frac(2, 1)}

SEConfigs ==
    {[Defaults EXCEPT !.builder = "squeeze_excite_block", !.input_shape = sh,
                      !.ratio = ra] :
        sh \in Shapes, ra \in 0..MaxRatio}

\* direct calls of the convolutional unit: growth rates from 0, multipliers
\* on both sides of 0, odd and even kernel widths
HlConfigs ==
    {[Defaults EXCEPT !.builder = "H_l", !.input_shape = sh, !.k = kk,
                      !.conv_kernel_width = kw, !.bottleneck_size = bn] :
        sh \in Shapes, kk \in (0..MaxK) \cup {32}, kw \in {1, 2, 3},
        bn \in {-1, 0, 1, 4}}

DenseBlockConfigs ==
    {[Defaults EXCEPT !.builder = "dense_block", !.input_shape = sh, !.k = kk,
                      !.num_layers = nl, !.conv_kernel_width = kw,
                      !.bottleneck_size = bn, !.se = s] :
        sh \in Shapes, kk \in (1..MaxK) \cup {32}, nl \in 0..MaxLayers,
        kw \in {1, 3},
        bn \in {0, 4}, s \in BOOLEAN}

TransitionConfigs ==
    {[Defaults EXCEPT !.builder = "transition_block", !.input_shape = sh,
                      !.transition_pool_size = ps, !.transition_pool_stride = st,
                      !.theta = th, !.se = s] :
        sh \in Shapes, ps \in {2}, st \in {1, 2}, th \in Thetas, s \in BOOLEAN}

PresetConfigs ==
    {[Defaults EXCEPT !.builder = b, !.include_top = top] :
        b \in Presets, top \in BOOLEAN}

BlockSizeChoices ==
    {NoBlockSizes, Listed(<<>>), Listed(<<1>>), Listed(<<2>>), Listed(<<1, 2>>),
     Listed(<<2, 1>>)}

CustomConfigs ==
    {[Defaults EXCEPT !.builder = "DenseNetCustom", !.input_shape = <<4, 2>>,
                      !.num_outputs = no, !.k = 3, !.block_sizes = bs,
                      !.theta = th, !.initial_filters = 5,
                      !.include_top = top, !.se = s] :
        no \in {2, 3}, bs \in BlockSizeChoices,
        th \in {Frac(0, 1), Frac(1, 2), Frac(1, 1), Frac(5, 4)},
        top \in BOOLEAN, s \in BOOLEAN}

FCNConfigs ==
    {[Defaults EXCEPT !.builder = "DenseFCN", !.input_shape = <<4, 2>>,
                      !.num_outputs = 5, !.k = 3, !.block_sizes = bs,
                      !.theta = th, !.initial_filters = 5] :
        bs \in BlockSizeChoices \cup {Listed(<<6, 12, 24, 16>>)},
        th \in {Frac(0, 1), Frac(1, 2), Frac(1, 1)}}

Configs ==
    SEConfigs \cup HlConfigs \cup DenseBlockConfigs \cup TransitionConfigs
        \cup PresetConfigs
        \cup CustomConfigs \cup FCNConfigs

-----------------------------------------------------------------------------
(* The calls, step by step.                                                *)

Build == [g |-> graph, x |-> x, err |-> "", call |-> call]

\* the caller's own input placeholder of a direct block call (owned by no call)
CallerInput == Input([g |-> graph, x |-> x, err |-> "", call |-> 0], cfg.input_shape)

Owned(r) == [r EXCEPT !.call = call]

Outcome(status, out, asm) ==
    [status |-> status, base |-> base, output |-> out, assembled |-> asm]

\* the call goes on at position next, or ends with the exception r carries
Continue(r, next) ==
    /\ graph' = r.g
    /\ x' = r.x
    /\ err' = r.err
    /\ pc' = IF r.err # "" THEN "done" ELSE next
    /\ models' = IF r.err # "" THEN Append(models, Outcome(r.err, 0, 0)) ELSE models

\* the call returns r's current tensor, or ends with the exception r carries
Return(r, asm) ==
    /\ graph' = r.g
    /\ x' = r.x
    /\ err' = r.err
    /\ pc' = "done"
    /\ models' = Append(models, IF r.err # "" THEN Outcome(r.err, 0, 0)
                                ELSE Outcome("returned", r.x, asm))

Init ==
    /\ image_data_format \in {"channels_last", "channels_first"}
    /\ strict_filters \in BOOLEAN
    /\ strict_units \in BOOLEAN
    /\ cfg \in Configs
    /\ call = 1
    /\ pc = "start"
    /\ graph = <<>>
    /\ x = 0
    /\ layers_to_concat = <<>>
    /\ it = 0
    /\ blk = 0
    /\ base = 0
    /\ err = ""
    /\ models = <<>>

CallSqueezeExcite ==
    /\ pc = "start"
    /\ cfg.builder = "squeeze_excite_block"
    /\ Return(squeeze_excite_block(Owned(CallerInput), cfg.ratio), 0)
    /\ UNCHANGED <<image_data_format, strict_filters, strict_units, cfg,
                   call, layers_to_concat, it, blk, base>>

\* H_l(k, bottleneck_size, kernel_width)(x) on the caller's input
CallH_l ==
    /\ pc = "start"
    /\ cfg.builder = "H_l"
    /\ Return(H_l(Owned(CallerInput), cfg.k, cfg.bottleneck_size,
                  cfg.conv_kernel_width), 0)
    /\ UNCHANGED <<image_data_format, strict_filters, strict_units, cfg,
                   call, layers_to_concat, it, blk, base>>

CallTransitionBlock ==
    /\ pc = "start"
    /\ cfg.builder = "transition_block"
    /\ Return(transition_block(Owned(CallerInput), cfg.transition_pool_size,
                               cfg.transition_pool_stride, cfg.theta, cfg.se), 0)
    /\ UNCHANGED <<image_data_format, strict_filters, strict_units, cfg,
                   call, layers_to_concat, it, blk, base>>

\* dense_block(...)(x) up to the loop: layers_to_concat = [x]
CallDenseBlock ==
    /\ pc = "start"
    /\ cfg.builder = "dense_block"
    /\ Continue(Owned(CallerInput), "dense_loop")
    /\ layers_to_concat' = NewList(CallerInput.x)
    /\ it' = 0
    /\ UNCHANGED <<image_data_format, strict_filters, strict_units, cfg, call,
                   blk, base>>

\* (mutant) the loop stops one layer short
NumLayersOneShort ==
    (IF cfg.builder = "dense_block" THEN cfg.num_layers
     ELSE AssemblerBlockSizes(cfg)[blk]) - 1

\* the number of layers of the dense block under way
NumLayers ==
    IF cfg.builder = "dense_block" THEN cfg.num_layers
    ELSE AssemblerBlockSizes(cfg)[blk]

BlockSE == IF cfg.builder = "dense_block" THEN cfg.se ELSE AssemblerSE(cfg)

DenseBlockIter ==
    /\ pc = "dense_loop"
    /\ it < NumLayers
    /\ LET b == dense_block_body(Build, layers_to_concat, cfg.k,
                                 cfg.conv_kernel_width, cfg.bottleneck_size, BlockSE)
       IN /\ Continue(b.r, "dense_loop")
          /\ layers_to_concat' = b.ltc
    /\ it' = it + 1
    /\ UNCHANGED <<image_data_format, strict_filters, strict_units, cfg, call,
                   blk, base>>

DenseBlockReturn ==
    /\ pc = "dense_loop"
    /\ it = NumLayers
    /\ IF cfg.builder = "dense_block"
       THEN Return(Build, 0)
       ELSE Continue(Build, "transition")
    /\ UNCHANGED <<image_data_format, strict_filters, strict_units, cfg,
                   call, layers_to_concat, it, blk, base>>

\* a preset builder up to the assembler's first dense block
DenseNetPreset ==
    /\ pc = "start"
    /\ cfg.builder \in Presets
    /\ Continue(AssemblerStem(Input(Build, cfg.input_shape), cfg),
                AssemblerFirst(cfg))
    /\ blk' = 1
    /\ UNCHANGED <<image_data_format, strict_filters, strict_units, cfg,
                   call, layers_to_concat, it, base>>

\* DenseNetCustom and DenseFCN check block_sizes, then create the input
DenseNetCustom ==
    /\ pc = "start"
    /\ cfg.builder = "DenseNetCustom"
    /\ IF BlockSizesMissing(cfg.block_sizes)
       THEN Continue(Raise(Build, "ValueError"), "block")
       ELSE Continue(AssemblerStem(Input(Build, cfg.input_shape), cfg),
                     AssemblerFirst(cfg))
    /\ blk' = 1
    /\ UNCHANGED <<image_data_format, strict_filters, strict_units, cfg,
                   call, layers_to_concat, it, base>>

DenseFCN ==
    /\ pc = "start"
    /\ cfg.builder = "DenseFCN"
    /\ IF BlockSizesMissing(cfg.block_sizes)
       THEN Continue(Raise(Build, "ValueError"), "block")
       ELSE Continue(AssemblerStem(Input(Build, cfg.input_shape), cfg),
                     AssemblerFirst(cfg))
    /\ blk' = 1
    /\ UNCHANGED <<image_data_format, strict_filters, strict_units, cfg,
                   call, layers_to_concat, it, base>>

\* the assembler applies the next dense block to the current tensor
AssemblerDenseBlock ==
    /\ pc = "block"
    /\ Continue(Build, "dense_loop")
    /\ layers_to_concat' = NewList(x)
    /\ it' = 0
    /\ UNCHANGED <<image_data_format, strict_filters, strict_units, cfg, call,
                   blk, base>>

AssemblerTransition ==
    /\ pc = "transition"
    /\ LET r == IF AssemblerTransitionAfter(cfg, blk)
                THEN transition_block(Build, cfg.transition_pool_size,
                                      cfg.transition_pool_stride, cfg.theta,
                                      AssemblerSE(cfg))
                ELSE Build
       IN Continue(r, IF blk < Len(AssemblerBlockSizes(cfg)) THEN "block" ELSE "final")
    /\ blk' = blk + 1
    /\ UNCHANGED <<image_data_format, strict_filters, strict_units, cfg,
                   call, layers_to_concat, it, base>>

\* the assembler's last stage, then the builder's own tail and Model(...)
ClassifierFinish ==
    /\ pc = "final"
    /\ LET a == AssemblerFinalStage(Build, UseGlobalPooling(cfg.builder))
           r == IF cfg.builder = "DenseFCN"
                THEN DenseFCNProjection(a, cfg.num_outputs)
                ELSE ClassifierHead(a, cfg.include_top, cfg.num_outputs)
       IN Return(r, a.x)
    /\ UNCHANGED <<image_data_format, strict_filters, strict_units, cfg,
                   call, layers_to_concat, it, blk, base>>

\* the same builder is called once more with the same arguments
CallAgain ==
    /\ pc = "done"
    /\ call = 1
    /\ call' = 2
    /\ pc' = "start"
    /\ base' = Len(graph)
    /\ x' = 0
    /\ layers_to_concat' = <<>>
    /\ it' = 0
    /\ blk' = 0
    /\ err' = ""
    /\ UNCHANGED <<image_data_format, strict_filters, strict_units, cfg, graph,
                   models>>

Next ==
    \/ CallSqueezeExcite
    \/ CallH_l
    \/ CallTransitionBlock
    \/ CallDenseBlock
    \/ DenseBlockIter
    \/ DenseBlockReturn
    \/ DenseNetPreset
    \/ DenseNetCustom
    \/ DenseFCN
    \/ AssemblerDenseBlock
    \/ AssemblerTransition
    \/ ClassifierFinish
    \/ CallAgain

Spec == Init /\ [][Next]_vars

-----------------------------------------------------------------------------
(* Properties.                                                             *)

\* n = floor(a * num / den), stated without the division
IsFloorOf(n, a, num, den) == n * den <= a * num /\ a * num < (n + 1) * den

\* the nodes the call under way has created itself
OwnNodes == {i \in 1..Len(graph) : graph[i].call = call}

TransitionReturned ==
    \/ cfg.builder = "transition_block" /\ pc = "done" /\ err = ""
    \/ cfg.builder \in Classifiers /\ pc \in {"block", "final"} /\ blk > 1

\* the pooling node, the convolution and the input of the transition block
\* that returned tensor t
TransitionPool(t) == IF graph[t].op = "Multiply" THEN graph[t].ins[1] ELSE t
TransitionConv(t) == graph[TransitionPool(t)].ins[1]
TransitionSource(t) == graph[graph[graph[TransitionConv(t)].ins[1]].ins[1]].ins[1]

\* C2: the tensor a transition block returns has floor(C * theta) channels,
\* the filter count of its 1-wide convolution, with or without the gate.
C2_TransitionChannels ==
    TransitionReturned =>
        /\ graph[TransitionPool(x)].op = "AveragePooling1D"
        /\ graph[TransitionConv(x)].op = "Conv1D"
        /\ graph[TransitionConv(x)].w = 1
        /\ graph[TransitionConv(x)].n = graph[x].C
        /\ IsFloorOf(graph[x].C, graph[TransitionSource(x)].C,
                     cfg.theta.num, cfg.theta.den)
        /\ cfg.builder = "transition_block" =>
               graph[TransitionSource(x)].C = cfg.input_shape[2]

C2_Witness ==
    /\ cfg.builder = "transition_block" /\ cfg.se
    /\ cfg.theta = Frac(3, 4) /\ cfg.input_shape[2] = 3
    /\ pc = "done" /\ err = ""
    /\ graph[x].op = "Multiply" /\ graph[x].C = 2

\* C3 (as claimed): when theta is out of range the failure is raised before
\* the call has built any node, the input placeholder included.
C3_NoNodeBeforeThetaFailure ==
    (pc = "done" /\ err = "AssertionError") => OwnNodes = {}

\* C4: DenseNetCustom and DenseFCN called without block sizes (None or [])
\* raise ValueError having created no node, whatever the other arguments.
C4_BlockSizesCheckedFirst ==
    (/\ cfg.builder \in {"DenseNetCustom", "DenseFCN"}
     /\ (cfg.block_sizes.none \/ Len(cfg.block_sizes.list) = 0)
     /\ pc # "start") =>
        /\ pc = "done"
        /\ err = "ValueError"
        /\ models[call].status = "ValueError"
        /\ Len(graph) = base
        /\ OwnNodes = {}

C4_Witness ==
    /\ cfg.builder = "DenseFCN"
    /\ ~cfg.block_sizes.none /\ cfg.block_sizes.list = <<>>
    /\ ~ThetaInRange(cfg.theta)
    /\ pc = "done" /\ err = "ValueError" /\ graph = <<>>

\* the ratio of the gate that produced node m
GateRatio == IF cfg.builder = "squeeze_excite_block" THEN cfg.ratio ELSE SEDefaultRatio

\* node m gates tensor a: m = a * sigmoid-dense(relu-dense(pool(a)))
IsGateOf(m, a) ==
    LET s2 == graph[m].ins[2]
        s1 == graph[s2].ins[1]
        rs == graph[s1].ins[1]
        gp == graph[rs].ins[1]
    IN /\ graph[m].ins = <<a, s2>>
       /\ graph[s2].op = "Dense" /\ graph[s2].act = "sigmoid"
       /\ graph[s2].n = graph[a].C
       /\ graph[s1].op = "Dense" /\ graph[s1].act = "relu"
       /\ IsFloorOf(graph[s1].n, graph[a].C, 1, GateRatio)
       /\ graph[rs].op = "Reshape"
       /\ graph[gp].op = "GlobalAveragePooling1D" /\ graph[gp].ins = <<a>>

C6_DenseFCNReturnsProjection ==
    (/\ cfg.builder = "DenseFCN"
     /\ ~cfg.block_sizes.none /\ cfg.block_sizes.list # <<>>
     /\ cfg.theta.num > 0 /\ cfg.theta.num <= cfg.theta.den
     /\ pc = "done") =>
        /\ models[call].status = "returned"
        /\ graph[models[call].output].op = "Conv1D"
        /\ graph[models[call].output].w = 1
        /\ graph[models[call].output].n = cfg.num_outputs
        /\ graph[models[call].output].act = "sigmoid"
        /\ graph[models[call].output].ins = <<models[call].assembled>>
        /\ graph[models[call].assembled].L >= 1

GlobalPooled == Presets \cup {"DenseNetCustom"}

\* C7: the presets and DenseNetCustom return the assembler's global-pooled
\* vector itself when include_top is false, with nothing built after it, and
\* a softmax dense layer of width num_outputs over it when include_top is true.
C7_HeadIffIncludeTop ==
    (cfg.builder \in GlobalPooled /\ pc = "done" /\ err = "") =>
        LET m == models[call]
        IN /\ m.status = "returned"
           /\ graph[m.assembled].op = "GlobalAveragePooling1D"
           /\ IF cfg.include_top
              THEN /\ m.output = Len(graph)
                   /\ m.output = m.assembled + 1
                   /\ graph[m.output].op = "Dense"
                   /\ graph[m.output].act = "softmax"
                   /\ graph[m.output].n = cfg.num_outputs
                   /\ graph[m.output].C = cfg.num_outputs
                   /\ graph[m.output].ins = <<m.assembled>>
              ELSE /\ m.output = m.assembled
                   /\ m.assembled = Len(graph)
                   /\ \A i \in OwnNodes : graph[i].act # "softmax"

C7_Witness ==
    /\ cfg.builder = "DenseNet169" /\ cfg.include_top
    /\ pc = "done" /\ err = ""
    /\ graph[models[call].output].op = "Dense"
    /\ graph[models[call].output].C = 1000

\* the Concatenate node behind a dense block's output t
BlockConcat(t) == IF graph[t].op = "Multiply" THEN graph[t].ins[1] ELSE t

\* the pooling nodes of the transition blocks the call has built
Transitions == {i \in OwnNodes : graph[i].op = "AveragePooling1D"}

\* the size of the dense block that transition p follows
BlockBefore(p) == Len(graph[BlockConcat(TransitionSource(p))].ins) - 1

\* C8: the assembler threads one tensor through the stem, then a dense block
\* and a transition block per entry of block_sizes in order, the last entry
\* included, then global pooling; the pooled vector has floor(theta * (c +
\* n * k)) channels, c entering the last block of n layers (DenseNet121 with
\* defaults: n = 16, 512 channels).
C8_TransitionAfterEveryBlock ==
    (cfg.builder \in GlobalPooled /\ pc = "done" /\ err = "") =>
        LET a == models[call].assembled
            t == graph[a].ins[1]
            sizes == AssemblerBlockSizes(cfg)
            last == sizes[Len(sizes)]
        IN /\ graph[base + 1].op = "Input"
           /\ graph[base + 2].op = "Conv1D" /\ graph[base + 2].ins = <<base + 1>>
           /\ graph[base + 3].ins = <<base + 2>>
           /\ graph[base + 4].ins = <<base + 3>>
           /\ Cardinality(Transitions) = Len(sizes)
           /\ \A p \in Transitions :
                  BlockBefore(p) = sizes[Cardinality({q \in Transitions : q <= p})]
           /\ graph[a].op = "GlobalAveragePooling1D" /\ graph[a].L = 0
           /\ graph[TransitionPool(t)].op = "AveragePooling1D"
           /\ graph[BlockConcat(TransitionSource(t))].ins = layers_to_concat
           /\ Len(layers_to_concat) = last + 1
           /\ IsFloorOf(graph[a].C, graph[layers_to_concat[1]].C + last * cfg.k,
                        cfg.theta.num, cfg.theta.den)
           /\ (cfg.builder = "DenseNet121" /\ ~cfg.include_top) =>
                  /\ models[call].output = a
                  /\ last = 16
                  /\ graph[a].C = 512

C8_Witness ==
    /\ cfg.builder = "DenseNet121" /\ ~cfg.include_top
    /\ cfg.k = 32 /\ cfg.theta = Frac(1, 2) /\ cfg.initial_filters = 64
    /\ pc = "done" /\ err = ""
    /\ graph[models[call].output].op = "GlobalAveragePooling1D"
    /\ graph[models[call].output].C = 512

\* the nodes call c left in the graph, renumbered from the call's first node
LastNode(c) == IF c < Len(models) THEN models[c + 1].base ELSE Len(graph)

Architecture(c) ==
    [i \in 1..(LastNode(c) - models[c].base) |->
        [op  |-> graph[models[c].base + i].op,
         ins |-> [j \in DOMAIN graph[models[c].base + i].ins |->
                      graph[models[c].base + i].ins[j] - models[c].base],
         L   |-> graph[models[c].base + i].L,
         C   |-> graph[models[c].base + i].C,
         n   |-> graph[models[c].base + i].n,
         w   |-> graph[models[c].base + i].w,
         s   |-> graph[models[c].base + i].s,
         act |-> graph[models[c].base + i].act]]

\* the nodes call c created or was handed
NodesOf(c) == (models[c].base + 1)..LastNode(c)

\* no tensor of call c is computed from a node outside the call
SelfContained(c) ==
    \A i \in NodesOf(c) : \A j \in DOMAIN graph[i].ins : graph[i].ins[j] \in NodesOf(c)

UnitInput(u) ==
    LET bn == graph[graph[u].ins[1]].ins[1]
    IN IF cfg.bottleneck_size > 0
       THEN graph[graph[graph[graph[bn].ins[1]].ins[1]].ins[1]].ins[1]
       ELSE graph[bn].ins[1]

\* t is the current tensor formed from the list members ms: their
\* concatenation in order, gated once when the gate is on
IsCurrentOf(t, ms) ==
    IF BlockSE
    THEN /\ graph[t].op = "Multiply"
         /\ graph[graph[t].ins[1]].op = "Concatenate"
         /\ graph[graph[t].ins[1]].ins = ms
         /\ IsGateOf(t, graph[t].ins[1])
    ELSE /\ graph[t].op = "Concatenate"
         /\ graph[t].ins = ms

\* a dense block is under way or has just returned
InDenseBlock ==
    \/ pc \in {"dense_loop", "transition"}
    \/ cfg.builder = "dense_block" /\ pc = "done" /\ err = ""

\* C10: after i iterations the list holds the block input and the raw outputs
\* of units 1..i, the current tensor is the concatenation of the list in order
\* (gated once when se is set), unit i + 1 ran on the current tensor of
\* iteration i, and the block returns the last current tensor.
C10_DenseConnectivity ==
    InDenseBlock =>
        /\ Len(layers_to_concat) = it + 1
        /\ cfg.builder = "dense_block" => layers_to_concat[1] = base + 1
        /\ \A j \in 2..Len(layers_to_concat) :
              /\ graph[layers_to_concat[j]].op = "Conv1D"
              /\ graph[layers_to_concat[j]].n = cfg.k
              /\ graph[layers_to_concat[j]].w = cfg.conv_kernel_width
              /\ layers_to_concat[j] > layers_to_concat[j - 1]
              /\ IF j = 2
                 THEN UnitInput(layers_to_concat[j]) = layers_to_concat[1]
                 ELSE IsCurrentOf(UnitInput(layers_to_concat[j]),
                                  SubSeq(layers_to_concat, 1, j - 1))
        /\ IF it = 0 THEN x = layers_to_concat[1]
                     ELSE IsCurrentOf(x, layers_to_concat)
        /\ (cfg.builder = "dense_block" /\ pc = "done") =>
               /\ it = cfg.num_layers
               /\ models[call].output = x

C10_Witness ==
    /\ cfg.builder = "dense_block" /\ cfg.se /\ cfg.num_layers = 2
    /\ cfg.bottleneck_size = 0
    /\ pc = "done" /\ err = ""
    /\ Len(layers_to_concat) = 3
    /\ graph[x].op = "Multiply"

\* t is normalize -> rectify -> convolution (filters, width, stride 1, same
\* padding) applied to tensor src
IsConvStage(t, src, filters, width) ==
    /\ graph[t].op = "Conv1D" /\ graph[t].act = ""
    /\ graph[t].n = filters /\ graph[t].w = width /\ graph[t].s = 1
    /\ Len(graph[t].ins) = 1
    /\ graph[graph[t].ins[1]].op = "Activation"
    /\ graph[graph[t].ins[1]].act = "relu"
    /\ graph[graph[graph[t].ins[1]].ins[1]].op = "BatchNormalization"
    /\ graph[graph[graph[t].ins[1]].ins[1]].ins = <<src>>

\* u is the output of a convolutional unit (k, bottleneck_size, kernel_width)
\* applied to tensor src: the bottleneck stage exactly when the multiplier is
\* positive, then the main stage, and the shape (L, k) for src of shape (L, C)
IsUnitOf(u, src, k, bottleneck_size, kernel_width) ==
    /\ IF bottleneck_size > 0
       THEN /\ u - 3 \in 1..Len(graph)
            /\ IsConvStage(u, u - 3, k, kernel_width)
            /\ IsConvStage(u - 3, src, k * bottleneck_size, 1)
            /\ graph[u - 3].L = graph[src].L
            /\ graph[u - 3].C = k * bottleneck_size
       ELSE IsConvStage(u, src, k, kernel_width)
    /\ graph[src].op \notin {"Conv1D", "Activation", "BatchNormalization"}
    /\ graph[u].L = graph[src].L
    /\ graph[u].C = k

\* C11: H_l builds the bottleneck stage (normalize, rectify, 1-wide convolution
\* to k * bottleneck_size channels) exactly when bottleneck_size > 0, then
\* always normalize, rectify and a convolution of width kernel_width with
\* stride 1 and same padding to k channels, and nothing else; applied to a
\* tensor of shape (L, C) it returns one of shape (L, k) whatever C and
\* bottleneck_size are. Called directly it raises only when k = 0 and the
\* framework rejects a convolution without filters. The units inside dense
\* blocks are built the same way.
C11_ConvolutionalUnit ==
    /\ (cfg.builder = "H_l" /\ pc = "done" /\ err # "") =>
          cfg.k = 0 /\ strict_filters
    /\ (cfg.builder = "H_l" /\ pc = "done" /\ err = "") =>
          /\ models[call].status = "returned"
          /\ models[call].output = Len(graph)
          /\ Len(graph) - (base + 1) = IF cfg.bottleneck_size > 0 THEN 6 ELSE 3
          /\ IsUnitOf(Len(graph), base + 1, cfg.k, cfg.bottleneck_size,
                      cfg.conv_kernel_width)
          /\ <<graph[Len(graph)].L, graph[Len(graph)].C>> =
                 <<cfg.input_shape[1], cfg.k>>
    /\ pc = "dense_loop" =>
          \A j \in 2..Len(layers_to_concat) :
              IsUnitOf(layers_to_concat[j], UnitInput(layers_to_concat[j]),
                       cfg.k, cfg.bottleneck_size, cfg.conv_kernel_width)

C11_Witness ==
    /\ cfg.builder = "H_l" /\ cfg.input_shape = <<2, 3>>
    /\ cfg.k = 2 /\ cfg.bottleneck_size = 4 /\ cfg.conv_kernel_width = 3
    /\ pc = "done" /\ err = "" /\ call = 1
    /\ Len(graph) = 7
    /\ graph[4].op = "Conv1D" /\ graph[4].n = 8 /\ graph[4].w = 1
    /\ <<graph[7].L, graph[7].C>> = <<2, 2>>

====
